---- MODULE Spec2Model ----
(***************************************************************************)
(* A model of two parts of krilla:                                         *)
(*   - examples/parley.rs, main: the loop that writes the lines, runs and  *)
(*     glyphs of a parley layout to a krilla surface, with its font cache   *)
(*     and its accumulate/flush handling of glyph styles;                  *)
(*   - src/configure/version.rs: PdfVersion, its capability predicates and *)
(*     the four lazily initialised built-in ICC profiles.                  *)
(* Floating point positions are modelled by exact integers, and a glyph     *)
(* value divided by the font size by the exact quotient <<num, den>>.      *)
(***************************************************************************)
EXTENDS Integers, Sequences, FiniteSets, TLC

\* ---------------------------------------------------------------- bounds
\* lines of the layout
MaxLines == 2
\* runs of one line
MaxRuns == 2
\* glyphs of one line (over all its runs)
MaxGlyphs == 3
\* largest major and minor revision of an ICC profile that is asked about
MaxMajor == 5
MaxMinor == 4
\* threads that use the built-in profiles, and the calls they make in all
NumThreads == 2
MaxCalls == 3

\* ---------------------------------------------------------------- inputs
\* Option<T>: None, or Some(v)
None == <<>>
Some(v) == <<v>>
\* the value of a variable that main has not yet bound
NoFont == [data |-> 0, index |-> 0, inst |-> 0]
NoRunFont == [id |-> 0, index |-> 0]
\* glyph.style_index
StyleIndices == {0, 1}
\* glyph.advance
Advances == {1, 2}
\* the glyphs a cluster yields: [style_index, advance, x, y]; the offsets x and
\* y of this sample vary with the advance and the style
LayoutGlyphs ==
    {[style |-> st, advance |-> a, x |-> a - 1, y |-> st] :
        st \in StyleIndices, a \in Advances}
\* line.metrics().baseline
Baselines == {10, 20}
\* run.font_size()
FontSizes == {1, 2}
\* the id of font.data.into_raw_parts()
FontIds == {1, 2}
\* font.index
FontIndices == {0, 1}

\* layout.styles()[i].brush: the default brush is black, the pushed one red
styles == <<[brush |-> "black"], [brush |-> "red"]>>

VARIABLES
    pc,          \* position of main
    lineNo,      \* lines started so far
    runNo,       \* runs started in the current line
    y,           \* baseline of the current line
    x,           \* running x position of the line
    cur_x,       \* x position where the buffered glyphs start
    font,        \* run.font(): [id, index]
    font_size,   \* run.font_size()
    font_cache,  \* HashMap: id -> krilla font
    krilla_font, \* the font the cache returned for the run
    cur_style,   \* Option<style index>
    glyphs,      \* the buffer of KrillaGlyph
    ops,         \* surface calls made for the current run, in order
    finished,    \* the finish calls made, in order
    lineGlyphs,  \* the glyphs read from the layout in the current line
    runStart,    \* Len(lineGlyphs) when the current run started
    ctorCalls    \* the arguments of every Font::new call, in order

textVars == <<pc, lineNo, runNo, y, x, cur_x, font, font_size, font_cache,
              krilla_font, cur_style, glyphs, ops, finished, lineGlyphs,
              runStart, ctorCalls>>

VARIABLES
    ver,         \* the PdfVersion asked about
    ver2,        \* a second PdfVersion, to compare the answers
    metadata,    \* ICCMetadata: [major, minor]
    bits,        \* BitsPerComponent
    query,       \* the method applied last
    answer,      \* its result for ver
    answer2      \* its result for ver2

verVars == <<ver, ver2, metadata, bits, query, answer, answer2>>

VARIABLES
    lazy,        \* the four statics: the state of each Lazy and its value
    thr,         \* each thread: its position, its call and the static it forces
    parses,      \* ICCProfile::new calls made for each static
    requested,   \* the statics some call has asked for
    returned,    \* the instances the calls returned for each static
    contended,   \* the statics whose initialiser started while another thread asked
    calls        \* calls made so far

iccVars == <<lazy, thr, parses, requested, returned, contended, calls>>

vars == <<textVars, verVars, iccVars>>

\* ---------------------------------------------------------------- helpers
\* Font::new(data, index): None for a font program that cannot be read
Font_new(data, index, ok, serial) ==
    IF ok THEN Some([data |-> data, index |-> index, inst |-> serial]) ELSE None

\* the key of font_cache.entry(..)
CacheKey(id, index) == id

\* a cache that builds the font at every lookup
VacantAlways(cache, key) == TRUE

\* or_insert_with runs its closure only for a vacant entry
Vacant(cache, key) == key \notin DOMAIN cache

\* the paint of set_fill: layout.styles()[style as usize].brush
Brush(style) == styles[style + 1].brush

set_fill(style) == [op |-> "set_fill", paint |-> Brush(style)]

draw_glyphs(px, py, gs, f, size) ==
    [op |-> "draw_glyphs", x |-> px, y |-> py, glyphs |-> gs,
     font |-> f, font_size |-> size]

\* the f32 division n / d, as the exact quotient
Quot(n, d) == <<n, d>>

\* a glyph that is stored with the values of the layout, not divided
KrillaGlyphUnscaled(pos, g, size) ==
    [text_range |-> pos, x_advance |-> Quot(g.advance, 1),
     x_offset |-> Quot(g.x, 1), y_offset |-> Quot(g.y, 1)]

\* KrillaGlyph::new(id, advance / font_size, x / font_size, y / font_size, 0.0,
\* cluster.text_range(), None); the text range is modelled by the position of
\* the glyph in its line
KrillaGlyph(pos, g, size) ==
    [text_range |-> pos, x_advance |-> Quot(g.advance, size),
     x_offset |-> Quot(g.x, size), y_offset |-> Quot(g.y, size)]

\* a flush that leaves the start of the buffer where it was
FlushedStartStale(curx, linex) == curx

\* the position x of the buffer after a flush
FlushedStart(curx, linex) == linex

\* a flush that takes the brush of the glyph that triggered it
FlushStyleOfNewGlyph(style, glyph_style) == glyph_style

\* the style whose brush a flush on a style change sets
FlushStyle(style, glyph_style) == style[1]

\* the style-change test of the glyph loop
StyleChanged(style, glyph_style) == style # None /\ style[1] # glyph_style

\* a flush that loses the glyph that triggered it
NextBufferDropsTrigger(flush, buffer, g) ==
    IF flush THEN <<>> ELSE Append(buffer, g)

\* the buffer after a glyph: glyphs.clear() on a flush, then glyphs.push(g)
NextBuffer(flush, buffer, g) == Append(IF flush THEN <<>> ELSE buffer, g)

\* a buffer declared outside the loop over the runs
RunBufferKept(old) == old

\* the buffer at the start of a run: let mut glyphs = vec![]
RunBuffer(old) == <<>>

\* ---------------------------------------------------------------- main
TextInit ==
    /\ pc = "lines"
    /\ lineNo = 0
    /\ runNo = 0
    /\ y = 0
    /\ x = 0
    /\ cur_x = 0
    /\ font = NoRunFont
    /\ font_size = 0
    /\ font_cache = <<>>
    /\ krilla_font = NoFont
    /\ cur_style = None
    /\ glyphs = <<>>
    /\ ops = <<>>
    /\ finished = <<>>
    /\ lineGlyphs = <<>>
    /\ runStart = 0
    /\ ctorCalls = <<>>

\* for line in layout.lines(): y = baseline, x = 0.0
StartLine ==
    /\ UNCHANGED <<verVars, iccVars>>
    /\ pc = "lines"
    /\ lineNo < MaxLines
    /\ \E b \in Baselines : y' = b
    /\ x' = 0
    /\ lineNo' = lineNo + 1
    /\ runNo' = 0
    /\ lineGlyphs' = <<>>
    /\ runStart' = 0
    /\ pc' = "line"
    /\ UNCHANGED <<cur_x, font, font_size, font_cache, krilla_font, cur_style,
                   glyphs, ops, finished, ctorCalls>>

\* for run in line.runs(): the font lookup and the reset of the run's state
StartRun ==
    /\ UNCHANGED <<verVars, iccVars>>
    /\ pc = "line"
    /\ runNo < MaxRuns
    /\ \E id \in FontIds, index \in FontIndices, size \in FontSizes, ok \in BOOLEAN :
         LET key == CacheKey(id, index)
             made == Font_new(id, index, ok, Len(ctorCalls) + 1)
         IN  IF Vacant(font_cache, key)
             THEN /\ ctorCalls' = Append(ctorCalls, [data |-> id, index |-> index])
                  /\ IF made = None
                     THEN \* unwrap() of None panics
                          /\ pc' = "panicked"
                          /\ UNCHANGED <<runNo, cur_x, font, font_size, font_cache,
                                         krilla_font, cur_style, glyphs, ops,
                                         runStart>>
                     ELSE /\ font_cache' = [k \in DOMAIN font_cache \cup {key} |->
                                              IF k = key THEN made[1] ELSE font_cache[k]]
                          /\ krilla_font' = made[1]
                          /\ font' = [id |-> id, index |-> index]
                          /\ font_size' = size
                          /\ cur_x' = x
                          /\ cur_style' = None
                          /\ glyphs' = RunBuffer(glyphs)
                          /\ ops' = <<>>
                          /\ runStart' = Len(lineGlyphs)
                          /\ runNo' = runNo + 1
                          /\ pc' = "run"
             ELSE /\ ok
                  /\ krilla_font' = font_cache[key]
                  /\ font' = [id |-> id, index |-> index]
                  /\ font_size' = size
                  /\ cur_x' = x
                  /\ cur_style' = None
                  /\ glyphs' = RunBuffer(glyphs)
                  /\ ops' = <<>>
                  /\ runStart' = Len(lineGlyphs)
                  /\ runNo' = runNo + 1
                  /\ pc' = "run"
                  /\ UNCHANGED <<font_cache, ctorCalls>>
    /\ UNCHANGED <<lineNo, y, x, finished, lineGlyphs>>

\* one glyph of the run: flush on a style change, then buffer the glyph
Glyph ==
    /\ UNCHANGED <<verVars, iccVars>>
    /\ pc = "run"
    /\ Len(lineGlyphs) < MaxGlyphs
    /\ \E g \in LayoutGlyphs :
         LET glyph_style == g.style
             flush == StyleChanged(cur_style, glyph_style)
         IN  /\ ops' = IF flush
                       THEN ops \o <<set_fill(FlushStyle(cur_style, glyph_style)),
                                     draw_glyphs(cur_x, y, glyphs, krilla_font,
                                                 font_size)>>
                       ELSE ops
             /\ cur_x' = IF flush THEN FlushedStart(cur_x, x) ELSE cur_x
             /\ cur_style' = Some(glyph_style)
             /\ glyphs' = NextBuffer(flush, glyphs,
                                     KrillaGlyph(Len(lineGlyphs) + 1, g, font_size))
             /\ x' = x + g.advance
             /\ lineGlyphs' = Append(lineGlyphs, g)
    /\ UNCHANGED <<pc, lineNo, runNo, y, font, font_size, font_cache, krilla_font,
                   finished, runStart, ctorCalls>>

\* a loop that forgets the glyphs left in the buffer
FinalFlushForgotten(buffer) == FALSE

\* the flush of the remaining glyphs after the glyph loop
FinalFlush(buffer) == buffer # <<>>

EndRun ==
    /\ UNCHANGED <<verVars, iccVars>>
    /\ pc = "run"
    /\ ops' = IF FinalFlush(glyphs)
              THEN ops \o <<set_fill(cur_style[1]),
                            draw_glyphs(cur_x, y, glyphs, krilla_font, font_size)>>
              ELSE ops
    /\ pc' = "line"
    /\ UNCHANGED <<lineNo, runNo, y, x, cur_x, font, font_size, font_cache,
                   krilla_font, cur_style, glyphs, finished, lineGlyphs, runStart,
                   ctorCalls>>

\* the runs of the line are exhausted: the locals of the line's iteration go
\* out of scope
EndLine ==
    /\ UNCHANGED <<verVars, iccVars>>
    /\ pc = "line"
    /\ pc' = "lines"
    /\ runNo' = 0
    /\ y' = 0
    /\ x' = 0
    /\ font' = NoRunFont
    /\ font_size' = 0
    /\ krilla_font' = NoFont
    /\ ops' = <<>>
    /\ lineGlyphs' = <<>>
    /\ runStart' = 0
    /\ cur_x' = 0
    /\ cur_style' = None
    /\ glyphs' = <<>>
    /\ UNCHANGED <<lineNo, font_cache, finished, ctorCalls>>

\* surface.finish(); page.finish(); document.finish().unwrap()
SurfaceFinish ==
    /\ UNCHANGED <<verVars, iccVars>>
    /\ pc = "lines"
    /\ finished' = Append(finished, "surface.finish")
    /\ pc' = "page_finish"
    /\ UNCHANGED <<lineNo, runNo, y, x, cur_x, font, font_size, font_cache,
                   krilla_font, cur_style, glyphs, ops, lineGlyphs, runStart,
                   ctorCalls>>

PageFinish ==
    /\ UNCHANGED <<verVars, iccVars>>
    /\ pc = "page_finish"
    /\ finished' = Append(finished, "page.finish")
    /\ pc' = "document_finish"
    /\ UNCHANGED <<lineNo, runNo, y, x, cur_x, font, font_size, font_cache,
                   krilla_font, cur_style, glyphs, ops, lineGlyphs, runStart,
                   ctorCalls>>

DocumentFinish ==
    /\ UNCHANGED <<verVars, iccVars>>
    /\ pc = "document_finish"
    /\ finished' = Append(finished, "document.finish")
    /\ \E ok \in BOOLEAN : pc' = IF ok THEN "done" ELSE "panicked"
    /\ UNCHANGED <<lineNo, runNo, y, x, cur_x, font, font_size, font_cache,
                   krilla_font, cur_style, glyphs, ops, lineGlyphs, runStart,
                   ctorCalls>>

\* ---------------------------------------------------------------- PdfVersion
\* the variants in the order of their declaration, which derive(Ord) uses
Pdf14 == 0
Pdf15 == 1
Pdf16 == 2
Pdf17 == 3
Pdf20 == 4
PdfVersion == {Pdf14, Pdf15, Pdf16, Pdf17, Pdf20}

BitsPerComponent == {"Eight", "Sixteen"}

\* the static whose value rgb_icc clones
rgb_icc(v) ==
    CASE v = Pdf14 -> "SRGB_V2_ICC"
      [] v = Pdf15 -> "SRGB_V2_ICC"
      [] v = Pdf16 -> "SRGB_V2_ICC"
      [] v = Pdf17 -> "SRGB_V4_ICC"
      [] v = Pdf20 -> "SRGB_V4_ICC"

\* a grey profile that turns modern one version early
grey_icc_early(v) == IF v >= Pdf16 THEN "GREY_V4_ICC" ELSE "GREY_V2_ICC"

\* the static whose value grey_icc clones
grey_icc(v) ==
    CASE v = Pdf14 -> "GREY_V2_ICC"
      [] v = Pdf15 -> "GREY_V2_ICC"
      [] v = Pdf16 -> "GREY_V2_ICC"
      [] v = Pdf17 -> "GREY_V4_ICC"
      [] v = Pdf20 -> "GREY_V4_ICC"

supports_icc(v, m) ==
    CASE v = Pdf14 -> m.major <= 2 /\ m.minor <= 2
      [] v = Pdf15 -> m.major <= 4
      [] v = Pdf16 -> m.major <= 4 /\ m.minor <= 1
      [] v = Pdf17 -> m.major <= 4 /\ m.minor <= 2
      [] v = Pdf20 -> m.major <= 4 /\ m.minor <= 2

\* a 16 bit gate that opens one version late
supports_bit_depth_late(v, bits_per_component) ==
    bits_per_component = "Eight" \/ v > Pdf15

supports_bit_depth(v, bits_per_component) ==
    CASE bits_per_component = "Eight" -> TRUE
      [] bits_per_component = "Sixteen" -> v >= Pdf15

\* a flag that is already deprecated at 1.7
deprecates_cid_set_early(v) == v >= Pdf17

deprecates_proc_sets(v) == v >= Pdf20

deprecates_cid_set(v) == v >= Pdf20

\* the (major, minor) pair of pdf.set_version
set_version(v) ==
    CASE v = Pdf14 -> <<1, 4>>
      [] v = Pdf15 -> <<1, 5>>
      [] v = Pdf16 -> <<1, 6>>
      [] v = Pdf17 -> <<1, 7>>
      [] v = Pdf20 -> <<2, 0>>

\* the string of xmp.pdf_version
write_xmp(v) ==
    CASE v = Pdf14 -> "1.4"
      [] v = Pdf15 -> "1.5"
      [] v = Pdf16 -> "1.6"
      [] v = Pdf17 -> "1.7"
      [] v = Pdf20 -> "2.0"

\* a match whose arm for 1.6 was copied from the arm for 1.5
as_str_copied(v) ==
    CASE v = Pdf14 -> "PDF 1.4"
      [] v = Pdf15 -> "PDF 1.5"
      [] v = Pdf16 -> "PDF 1.5"
      [] v = Pdf17 -> "PDF 1.7"
      [] v = Pdf20 -> "PDF 2.0"

as_str(v) ==
    CASE v = Pdf14 -> "PDF 1.4"
      [] v = Pdf15 -> "PDF 1.5"
      [] v = Pdf16 -> "PDF 1.6"
      [] v = Pdf17 -> "PDF 1.7"
      [] v = Pdf20 -> "PDF 2.0"

VerIdle ==
    /\ ver = Pdf14
    /\ ver2 = Pdf14
    /\ metadata = [major |-> 0, minor |-> 0]
    /\ bits = "Eight"
    /\ query = "none"
    /\ answer = <<>>
    /\ answer2 = <<>>

VerInit ==
    /\ ver \in PdfVersion
    /\ ver2 \in PdfVersion
    /\ metadata \in [major : 0..MaxMajor, minor : 0..MaxMinor]
    /\ bits \in BitsPerComponent
    /\ query = "none"
    /\ answer = <<>>
    /\ answer2 = <<>>

Ask_supports_icc ==
    /\ UNCHANGED <<textVars, iccVars>>
    /\ query' = "supports_icc"
    /\ answer' = supports_icc(ver, metadata)
    /\ answer2' = supports_icc(ver2, metadata)
    /\ UNCHANGED <<ver, ver2, metadata, bits>>

Ask_supports_bit_depth ==
    /\ UNCHANGED <<textVars, iccVars>>
    /\ query' = "supports_bit_depth"
    /\ answer' = supports_bit_depth(ver, bits)
    /\ answer2' = supports_bit_depth(ver2, bits)
    /\ UNCHANGED <<ver, ver2, metadata, bits>>

Ask_icc ==
    /\ UNCHANGED <<textVars, iccVars>>
    /\ query' = "icc"
    /\ answer' = [rgb |-> rgb_icc(ver), grey |-> grey_icc(ver)]
    /\ answer2' = [rgb |-> rgb_icc(ver2), grey |-> grey_icc(ver2)]
    /\ UNCHANGED <<ver, ver2, metadata, bits>>

Ask_deprecates ==
    /\ UNCHANGED <<textVars, iccVars>>
    /\ query' = "deprecates"
    /\ answer' = [proc_sets |-> deprecates_proc_sets(ver),
                  cid_set |-> deprecates_cid_set(ver)]
    /\ answer2' = [proc_sets |-> deprecates_proc_sets(ver2),
                   cid_set |-> deprecates_cid_set(ver2)]
    /\ UNCHANGED <<ver, ver2, metadata, bits>>

Ask_encodings ==
    /\ UNCHANGED <<textVars, iccVars>>
    /\ query' = "encodings"
    /\ answer' = [header |-> set_version(ver), xmp |-> write_xmp(ver),
                  str |-> as_str(ver)]
    /\ answer2' = [header |-> set_version(ver2), xmp |-> write_xmp(ver2),
                   str |-> as_str(ver2)]
    /\ UNCHANGED <<ver, ver2, metadata, bits>>

\* ---------------------------------------------------------------- the statics
Statics == {"SRGB_V4_ICC", "SRGB_V2_ICC", "GREY_V4_ICC", "GREY_V2_ICC"}
Threads == 1..NumThreads
Idle == [pc |-> "idle", target |-> "none"]

\* a lazy value without the once-only guard: a thread that finds the closure
\* running runs it too
MayInitRacy(state) == state \in {"uninit", "running"}

\* Lazy::force runs the closure of a Lazy only when no thread has started it
MayInit(state) == state = "uninit"

\* a lazy value that lets a later call run the closure again after a panic
AfterPanicRetry == "uninit"

\* the state of a Lazy whose closure panicked: the closure is gone, and every
\* later force panics
AfterPanic == "poisoned"

\* ICCProfile::clone: the clone shares the profile of the original
ICCProfile_clone(inst) == inst

IccIdle ==
    /\ lazy = [p \in Statics |-> [state |-> "uninit", value |-> 0]]
    /\ thr = [t \in Threads |-> Idle]
    /\ parses = [p \in Statics |-> 0]
    /\ requested = {}
    /\ returned = [p \in Statics |-> {}]
    /\ contended = {}
    /\ calls = 0

\* a thread calls rgb_icc or grey_icc: the match selects the static
Call(t) ==
    /\ UNCHANGED <<textVars, verVars>>
    /\ thr[t].pc = "idle"
    /\ calls < MaxCalls
    /\ calls' = calls + 1
    /\ \E v \in PdfVersion, f \in {"rgb_icc", "grey_icc"} :
         LET p == IF f = "rgb_icc" THEN rgb_icc(v) ELSE grey_icc(v)
         IN  /\ thr' = [thr EXCEPT ![t] = [pc |-> "force", target |-> p]]
             /\ requested' = requested \cup {p}
    /\ UNCHANGED <<lazy, parses, returned, contended>>

\* the deref of the static: Lazy::force. A thread that finds the closure
\* running waits for it (the action is then not enabled).
Force(t) ==
    /\ UNCHANGED <<textVars, verVars>>
    /\ thr[t].pc = "force"
    /\ LET p == thr[t].target
       IN  \/ /\ MayInit(lazy[p].state)
              /\ lazy' = [lazy EXCEPT ![p].state = "running"]
              /\ thr' = [thr EXCEPT ![t].pc = "init"]
              /\ contended' = IF \E u \in Threads \ {t} :
                                      thr[u].pc = "force" /\ thr[u].target = p
                               THEN contended \cup {p} ELSE contended
              /\ UNCHANGED returned
           \/ /\ lazy[p].state = "done"
              /\ returned' = [returned EXCEPT
                                ![p] = @ \cup {ICCProfile_clone(lazy[p].value)}]
              /\ thr' = [thr EXCEPT ![t] = Idle]
              /\ UNCHANGED <<lazy, contended>>
           \/ \* "Lazy instance has previously been poisoned"
              /\ lazy[p].state = "poisoned"
              /\ thr' = [thr EXCEPT ![t] = [pc |-> "panicked", target |-> p]]
              /\ UNCHANGED <<lazy, returned, contended>>
    /\ UNCHANGED <<parses, requested, calls>>

\* the closure: ICCProfile::new(include_bytes!(..)).unwrap(), then the clone
Parse(t) ==
    /\ UNCHANGED <<textVars, verVars>>
    /\ thr[t].pc = "init"
    /\ LET p == thr[t].target
           inst == 1 + parses["SRGB_V4_ICC"] + parses["SRGB_V2_ICC"]
                     + parses["GREY_V4_ICC"] + parses["GREY_V2_ICC"]
       IN  /\ parses' = [parses EXCEPT ![p] = @ + 1]
           /\ \E ok \in BOOLEAN :
                IF ok
                THEN /\ lazy' = [lazy EXCEPT ![p] = [state |-> "done", value |-> inst]]
                     /\ returned' = [returned EXCEPT
                                       ![p] = @ \cup {ICCProfile_clone(inst)}]
                     /\ thr' = [thr EXCEPT ![t] = Idle]
                ELSE \* unwrap() panics inside the closure
                     /\ lazy' = [lazy EXCEPT ![p].state = AfterPanic]
                     /\ thr' = [thr EXCEPT ![t] = [pc |-> "panicked", target |-> p]]
                     /\ UNCHANGED returned
    /\ UNCHANGED <<requested, contended, calls>>

\* ---------------------------------------------------------------- specifications
Init == TextInit /\ VerIdle /\ IccIdle

Next ==
    \/ StartLine
    \/ StartRun
    \/ Glyph
    \/ EndRun
    \/ EndLine
    \/ SurfaceFinish
    \/ PageFinish
    \/ DocumentFinish

Spec == Init /\ [][Next]_vars

\* the capability predicates, applied to every version and input
InitVersion == TextInit /\ VerInit /\ IccIdle

NextVersion ==
    \/ Ask_supports_icc
    \/ Ask_supports_bit_depth
    \/ Ask_icc
    \/ Ask_deprecates
    \/ Ask_encodings

SpecVersion == InitVersion /\ [][NextVersion]_vars

\* threads that call rgb_icc and grey_icc concurrently
InitIcc == TextInit /\ VerIdle /\ IccIdle

NextIcc == \E t \in Threads : Call(t) \/ Force(t) \/ Parse(t)

SpecIcc == InitIcc /\ [][NextIcc]_vars

\* ---------------------------------------------------------------- properties
\* the sum of the advances of a sequence of layout glyphs
RECURSIVE SumAdv(_)
SumAdv(s) == IF s = <<>> THEN 0 ELSE s[1].advance + SumAdv(Tail(s))

Prefix(s, n) == SubSeq(s, 1, n)

IsDraw(e) == e.op = "draw_glyphs"
IsFill(e) == e.op = "set_fill"
Draws == SelectSeq(ops, IsDraw)

\* the line positions of the glyphs of a buffer or batch
Positions(gs) == [i \in 1..Len(gs) |-> gs[i].text_range]

\* the last position of the maximal same-style block of s that starts at i
BlockEnd(s, i, j) ==
    CHOOSE e \in i..j :
        /\ \A k \in i..e : s[k].style = s[i].style
        /\ e = j \/ s[e + 1].style # s[i].style

\* the maximal contiguous same-style blocks of positions i..j of s, in order
RECURSIVE Blocks(_, _, _)
Blocks(s, i, j) ==
    IF i > j THEN <<>>
    ELSE LET e == BlockEnd(s, i, j)
         IN  <<[k \in 1..(e - i + 1) |-> i + k - 1]>> \o Blocks(s, e + 1, j)

\* the batches drawn for the run, and the buffer while the run is being read
Batches ==
    LET drawn == [i \in 1..Len(Draws) |-> Positions(Draws[i].glyphs)]
    IN  IF pc = "run" /\ glyphs # <<>> THEN Append(drawn, Positions(glyphs))
        ELSE drawn

RunStyles == [i \in 1..(Len(lineGlyphs) - runStart) |-> lineGlyphs[runStart + i].style]

\* C1: the batches drawn for a run are exactly the maximal contiguous
\* same-style blocks of the glyphs of the run, in input order: when the run has
\* ended the draw_glyphs calls are these blocks, and while it is read the calls
\* made so far followed by the buffer are the blocks of the glyphs read so far.
C1_BatchesAreMaximalBlocks ==
    pc \in {"run", "line"} =>
        Batches = Blocks(lineGlyphs, runStart + 1, Len(lineGlyphs))

\* a finished run with the styles A, B, A, drawn in three batches
C1_Witness ==
    /\ pc = "line"
    /\ RunStyles = <<0, 1, 0>>
    /\ Len(Draws) = 3

\* C3: every draw_glyphs call is immediately preceded by one set_fill call
\* whose paint is the brush of the style of the glyphs of the batch, so the
\* calls alternate and there are as many set_fill calls as batches.
C3_FillBeforeEveryBatch ==
    /\ Len(ops) % 2 = 0
    /\ \A i \in 1..Len(ops) :
         IF i % 2 = 1 THEN IsFill(ops[i])
         ELSE /\ IsDraw(ops[i])
              /\ \A k \in 1..Len(ops[i].glyphs) :
                   ops[i - 1].paint =
                       Brush(lineGlyphs[ops[i].glyphs[k].text_range].style)

\* a red batch flushed by a black glyph, which is now in the buffer
C3_Witness ==
    /\ pc = "run"
    /\ Len(ops) = 2
    /\ ops[1].paint = "red"
    /\ cur_style = Some(0)
    /\ Len(ops[2].glyphs) = 2

\* C4: every batch is drawn at x = the sum of the advances of the glyphs of
\* the line that precede its first glyph, and at y = the baseline of the line.
C4_BatchOrigin ==
    \A i \in 1..Len(Draws) :
        /\ Draws[i].glyphs # <<>>
        /\ Draws[i].x = SumAdv(Prefix(lineGlyphs, Draws[i].glyphs[1].text_range - 1))
        /\ Draws[i].y = y

\* the second run of a line draws a batch that a style change started
C4_Witness ==
    /\ runNo = 2
    /\ runStart > 0
    /\ \E i \in 1..Len(Draws) : Draws[i].glyphs[1].text_range > runStart + 1

\* C5: Font::new is called once for each cache key that occurs and never for
\* a key that is present, and a run gets the font that the call for its key built.
C5_OneConstructionPerKey ==
    /\ \A i, j \in 1..Len(ctorCalls) :
         CacheKey(ctorCalls[i].data, ctorCalls[i].index)
           = CacheKey(ctorCalls[j].data, ctorCalls[j].index) => i = j
    /\ pc = "run" =>
         \E i \in 1..Len(ctorCalls) :
            /\ CacheKey(ctorCalls[i].data, ctorCalls[i].index)
                 = CacheKey(font.id, font.index)
            /\ krilla_font.inst = i

\* the second run of the first line found the font of the first run in the cache
C5_Witness ==
    /\ pc = "run"
    /\ lineNo = 1
    /\ runNo = 2
    /\ Len(ctorCalls) = 1

\* C6: every run is drawn with a font built from the data and the face index
\* of the run's own font.
C6_FontOfDataAndIndex ==
    pc = "run" => /\ krilla_font.data = font.id
                  /\ krilla_font.index = font.index

\* some Font::new call returned None: its key has no entry in the cache
CtorFailed ==
    \E i \in 1..Len(ctorCalls) :
        CacheKey(ctorCalls[i].data, ctorCalls[i].index) \notin DOMAIN font_cache

\* C7: when Font::new fails for a key, only the request for that font fails:
\* main goes on and can process the runs that use other fonts.
C7_FailureIsLocal == CtorFailed => pc # "panicked"

\* C8: each built-in profile is parsed at most once under every interleaving,
\* not before a call asks for it, and all calls for it return one instance.
C8_ParsedOnceAndShared ==
    \A p \in Statics :
        /\ parses[p] <= 1
        /\ parses[p] > 0 => p \in requested
        /\ Cardinality(returned[p]) <= 1
        /\ returned[p] # {} => lazy[p].state = "done" /\ returned[p] = {lazy[p].value}

\* two threads asked for an unparsed profile at the same time, and both calls
\* have returned
C8_Witness ==
    \E p \in contended :
        /\ parses[p] = 1
        /\ returned[p] # {}
        /\ \A t \in Threads : thr[t].pc = "idle"

\* the generation of the profile of a static
Generation(static) ==
    IF static \in {"SRGB_V4_ICC", "GREY_V4_ICC"} THEN "v4" ELSE "v2"

\* C9: rgb_icc and grey_icc return the v2 profile below 1.7 and the v4 profile
\* from 1.7 on, both at the same threshold, and never v2 above a version with v4.
C9_OneThreshold ==
    query = "icc" =>
        /\ answer.rgb = IF ver < Pdf17 THEN "SRGB_V2_ICC" ELSE "SRGB_V4_ICC"
        /\ answer.grey = IF ver < Pdf17 THEN "GREY_V2_ICC" ELSE "GREY_V4_ICC"
        /\ Generation(answer.rgb) = Generation(answer.grey)
        /\ (ver <= ver2 /\ Generation(answer.rgb) = "v4") =>
               /\ Generation(answer2.rgb) = "v4"
               /\ Generation(answer2.grey) = "v4"

\* the two versions around the threshold
C9_Witness ==
    /\ query = "icc"
    /\ ver = Pdf16
    /\ ver2 = Pdf17
    /\ Generation(answer.grey) = "v2"
    /\ Generation(answer2.grey) = "v4"

\* C10: 8 bits are supported by every version, 16 bits by 1.5, 1.6, 1.7 and
\* 2.0 and not by 1.4.
C10_BitDepth ==
    query = "supports_bit_depth" =>
        /\ bits = "Eight" => answer
        /\ bits = "Sixteen" => (answer <=> ver \in {Pdf15, Pdf16, Pdf17, Pdf20})

\* 16 bits at 1.5
C10_Witness ==
    /\ query = "supports_bit_depth"
    /\ bits = "Sixteen"
    /\ ver = Pdf15
    /\ answer

\* C2: supports_icc is monotone in the version: what a version accepts, every
\* later version accepts.
C2_SupportsIccMonotone ==
    (query = "supports_icc" /\ ver < ver2 /\ answer) => answer2

\* C11: deprecates_proc_sets and deprecates_cid_set are false at 1.4, 1.5, 1.6
\* and 1.7 and true at 2.0, they agree at every version, and a flag that a
\* version deprecates is deprecated by every later version.
C11_DeprecatedAtNewest ==
    query = "deprecates" =>
        /\ answer.proc_sets <=> ver = Pdf20
        /\ answer.cid_set <=> ver = Pdf20
        /\ answer.proc_sets <=> answer.cid_set
        /\ ver <= ver2 => /\ answer.proc_sets => answer2.proc_sets
                          /\ answer.cid_set => answer2.cid_set

\* the two versions around the boundary
C11_Witness ==
    /\ query = "deprecates"
    /\ ver = Pdf17
    /\ ver2 = Pdf20
    /\ ~answer.proc_sets /\ ~answer.cid_set
    /\ answer2.proc_sets /\ answer2.cid_set

\* the parse of the profile of p failed
Poisoned(p) == parses[p] > 0 /\ lazy[p].state \notin {"running", "done"}

\* C12: a built-in profile that fails to parse fails at the first call that
\* needs it and not before: the call that parsed it panics and returns no
\* profile, and no later call for that profile returns one (the failure stays).
C12_ParseFailureIsFatal ==
    /\ [](\A p \in Statics :
            /\ parses[p] = 0 => lazy[p].state \in {"uninit", "running"}
            /\ Poisoned(p) =>
                 /\ p \in requested
                 /\ returned[p] = {}
                 /\ lazy[p].state = "poisoned"
                 /\ \E t \in Threads : thr[t] = [pc |-> "panicked", target |-> p])
    /\ [][\A p \in Statics :
            Poisoned(p) => /\ Poisoned(p)'
                           /\ parses'[p] = parses[p]
                           /\ returned'[p] = {}]_vars

\* the parse failed in one thread and a later call of another thread for the
\* same profile has panicked too
C12_Witness ==
    \E p \in Statics :
        /\ Poisoned(p)
        /\ \A t \in Threads : thr[t] = [pc |-> "panicked", target |-> p]

\* the finish calls of main, in the order of its last statements
FinishCalls == <<"surface.finish", "page.finish", "document.finish">>

\* the finish calls made so far are the first ones of FinishCalls, each made
\* once, and main draws nothing and starts no line or run after the first
FinishOrder ==
    /\ Len(finished) <= Len(FinishCalls)
    /\ finished = SubSeq(FinishCalls, 1, Len(finished))
    /\ finished # <<>> =>
         /\ pc \in {"page_finish", "document_finish", "done", "panicked"}
         /\ ops = <<>> /\ glyphs = <<>>

\* main has ended, by its last statement or by a panic
Ended == pc \in {"done", "panicked"}

\* C13: in every execution the drawing calls come before surface.finish,
\* surface.finish before page.finish, page.finish before document.finish, and
\* document.finish is called exactly once, as the last call: an execution that
\* has ended has made the three finish calls, in this order, once each.
C13_FinishOnceAndLast ==
    /\ FinishOrder
    /\ Ended => finished = FinishCalls

\* the glyphs read in the current run
RunLen == Len(lineGlyphs) - runStart

\* C14: no empty batch is drawn: every draw_glyphs call has at least one
\* glyph, the buffer is empty exactly as long as no style is set, which is as
\* long as the run has had no glyph, and nothing is drawn before the second
\* glyph of a run; a run without glyphs makes no set_fill or draw_glyphs call.
C14_NoEmptyBatch ==
    /\ \A i \in 1..Len(ops) : IsDraw(ops[i]) => ops[i].glyphs # <<>>
    /\ pc = "run" => ((cur_style = None) <=> (RunLen = 0))
    /\ pc = "run" => ((glyphs = <<>>) <=> (RunLen = 0))
    /\ (pc \in {"run", "line"} /\ RunLen = 0) => ops = <<>>
    /\ (pc = "run" /\ RunLen = 1) => ops = <<>>

\* the second run of a line has ended without a glyph, after a run with glyphs
C14_Witness ==
    /\ pc = "line"
    /\ runNo = 2
    /\ runStart > 0
    /\ RunLen = 0
    /\ ops = <<>>

\* the line positions of the glyphs drawn for the run
DrawnPositions ==
    UNION {{Draws[i].glyphs[k].text_range : k \in 1..Len(Draws[i].glyphs)} :
             i \in 1..Len(Draws)}

\* C15: no batch holds glyphs of two runs: the glyphs of every batch and of
\* the buffer are glyphs of the current run, every batch is drawn with the font
\* and the font size of that run, and when the run has ended all its glyphs
\* have been drawn.
C15_BatchesOfOneRun ==
    /\ pc \in {"run", "line"} =>
         \A i \in 1..Len(Draws) :
            /\ \A k \in 1..Len(Draws[i].glyphs) :
                 Draws[i].glyphs[k].text_range > runStart
            /\ Draws[i].font = krilla_font
            /\ Draws[i].font_size = font_size
    /\ pc = "run" => \A k \in 1..Len(glyphs) : glyphs[k].text_range > runStart
    /\ pc = "line" => DrawnPositions = (runStart + 1)..Len(lineGlyphs)

\* the second run of a line starts with the style the first run ended with,
\* and has drawn its glyphs
C15_Witness ==
    /\ pc = "line"
    /\ runNo = 2
    /\ runStart > 0
    /\ RunLen > 0
    /\ lineGlyphs[runStart].style = lineGlyphs[runStart + 1].style
    /\ Len(Draws) = 1

\* exact arithmetic on quotients <<n, d>>
RatAdd(p, q) == <<p[1] * q[2] + q[1] * p[2], p[2] * q[2]>>
RatScale(q, f) == <<q[1] * f, q[2]>>
RatEq(p, q) == p[2] # 0 /\ q[2] # 0 /\ p[1] * q[2] = q[1] * p[2]

\* the sum of the stored advances of a batch, each times the font size f
RECURSIVE ScaledAdvance(_, _)
ScaledAdvance(gs, f) ==
    IF gs = <<>> THEN Quot(0, 1)
    ELSE RatAdd(RatScale(gs[1].x_advance, f), ScaledAdvance(Tail(gs), f))

\* a stored glyph holds the values of its layout glyph divided by size
Normalised(kg, size) ==
    LET g == lineGlyphs[kg.text_range]
    IN  /\ RatEq(kg.x_advance, Quot(g.advance, size))
        /\ RatEq(kg.x_offset, Quot(g.x, size))
        /\ RatEq(kg.y_offset, Quot(g.y, size))

\* where the batch after batch i of the run starts: the next batch drawn, the
\* buffer, or (after the run) the cursor of the line
NextOrigin(i) ==
    IF i < Len(Draws) THEN Draws[i + 1].x
    ELSE IF pc = "run" THEN cur_x ELSE x

Dotted(h) == ToString(h[1]) \o "." \o ToString(h[2])

\* the numeric order of two header pairs
PairLess(h, k) == h[1] < k[1] \/ (h[1] = k[1] /\ h[2] < k[2])

\* C17: for every version the pair of set_version, the string of write_xmp and
\* the string of as_str denote the same number, one of 1.4, 1.5, 1.6, 1.7 and
\* 2.0; two different versions differ in the pair and in both strings; and the
\* order of the enum is the numeric order of the pairs.
C17_EncodingsAgree ==
    query = "encodings" =>
        /\ answer.header \in {<<1, 4>>, <<1, 5>>, <<1, 6>>, <<1, 7>>, <<2, 0>>}
        /\ answer.xmp = Dotted(answer.header)
        /\ answer.str = "PDF " \o Dotted(answer.header)
        /\ ver # ver2 => /\ answer.header # answer2.header
                         /\ answer.xmp # answer2.xmp
                         /\ answer.str # answer2.str
        /\ (ver < ver2) <=> PairLess(answer.header, answer2.header)

\* 1.7 and 2.0: the order of the pairs is decided by the major number
C17_Witness ==
    /\ query = "encodings"
    /\ ver = Pdf17
    /\ ver2 = Pdf20
    /\ answer.str = "PDF 1.7"
    /\ answer2.header = <<2, 0>>

====
